---- MODULE Spec2Model ----
(***************************************************************************)
(* Model of sync_to_ssds.cpp: a single-threaded watcher that mirrors a     *)
(* source directory to every mounted destination, once at startup and      *)
(* once per batch of inotify events.  The environment (mount table, the    *)
(* kernel's notification stream, rsync's exit status) is nondeterministic. *)
(***************************************************************************)
EXTENDS Integers, Sequences, FiniteSets, TLC

VARIABLES
    argv,         \* the argument vector, argv[1] is the program name (C's argv[0])
    pc,           \* position of main
    src_dir,      \* std::string src_dir
    dest_drives,  \* std::vector<std::string> dest_drives
    mtab,         \* /etc/mtab: the mnt_dir fields of its entries, in file order
    mtab_ok,      \* whether setmntent("/etc/mtab") currently succeeds
    drive,        \* position of the range-for in sync_to_all_drives
    caller,       \* which call of sync_to_all_drives is running: "initial" | "change"
    buffer,       \* the events delivered by the last read
    length,       \* return value of the last read (bytes)
    i,            \* byte offset of the scan in buffer
    fd,           \* the inotify descriptor, -1 while there is none
    wd,           \* the watch descriptor, -1 while there is none
    exit_status,  \* value returned by main, -1 while it runs
    active,       \* the rsync processes started by system() that have not ended
    att,          \* history: what happened to each destination of the call in progress
    cur,          \* history: what the last is_drive_mounted call saw, and the lines
                  \*          printed for its destination since
    prev,         \* history: the paths the previous call found mounted
    mtab_failed,  \* history: /etc/mtab could not be opened by some query of the
                  \*          call in progress
    has_read,     \* history: a read call has been made
    cycle_syncs,  \* history: sync_to_all_drives calls made for the last read
    error,        \* history: the fatal error main stopped on, "none" otherwise
    initial_done  \* history: the initial sync has returned

vars == <<argv, pc, src_dir, dest_drives, mtab, mtab_ok, drive, caller, buffer,
          length, i, fd, wd, exit_status, active, att, cur, prev, mtab_failed,
          has_read, cycle_syncs, error, initial_done>>

\* what main and the functions it calls write (everything but the environment)
prog == <<pc, src_dir, dest_drives, drive, caller, buffer, length, i, fd, wd,
          exit_status, active, att, cur, prev, mtab_failed, has_read,
          cycle_syncs, error, initial_done>>

\* the environment: the command line and the mount table
env == <<argv, mtab, mtab_ok>>

(***************************************************************************)
(* Bounds and input sets                                                   *)
(***************************************************************************)
MaxDests == 2       \* destinations on the command line
MaxBatch == 2       \* events delivered by one read

Sources == {"/data"}
MountDirs == {"/mnt/ssd1", "/mnt/ssd2"}

EVENT_SIZE == 16    \* sizeof(struct inotify_event)

IN_ALL == {"IN_CREATE", "IN_DELETE", "IN_MODIFY", "IN_MOVED_FROM", "IN_MOVED_TO"}
\* the events the kernel delivers in this model: an entry created or deleted
\* in the watched directory (the event carries its name, padded), and the
\* watched path itself modified when it is a file (no name)
Events == {[len |-> 16, mask |-> {"IN_CREATE"}], [len |-> 16, mask |-> {"IN_DELETE"}],
           [len |-> 0, mask |-> {"IN_MODIFY"}]}

SeqsUpTo(S, n) == UNION {[1..k -> S] : k \in 0..n}
Range(s) == {s[k] : k \in 1..Len(s)}
Distinct(s) == \A a, b \in 1..Len(s) : a # b => s[a] # s[b]

ArgVectors == {<<"sync_to_ssds">> \o a : a \in
                 {<<>>} \cup {<<s>> \o d : s \in Sources, d \in SeqsUpTo(MountDirs, MaxDests)}}
MountTables == {t \in SeqsUpTo(MountDirs, Cardinality(MountDirs)) : Distinct(t)}
Batches == SeqsUpTo(Events, MaxBatch)

Line(text, arg) == [text |-> text, arg |-> arg]

(***************************************************************************)
(* is_drive_mounted                                                        *)
(***************************************************************************)
RECURSIVE getmntent_loop(_, _, _, _)
getmntent_loop(table, k, d, out) ==
    IF k > Len(table) THEN [mounted |-> FALSE, out |-> out]
    ELSE IF table[k] = d
         THEN [mounted |-> TRUE, out |-> Append(out, Line("mnt_dir", table[k]))]
         ELSE getmntent_loop(table, k + 1, d, Append(out, Line("mnt_dir", table[k])))

\* faulty variant: the answer of the previous call is reused instead of the
\* mount table being read again
is_drive_mounted_cached(d, opened, table) ==
    IF initial_done
    THEN [ret |-> d \in prev, out |-> <<Line(IF d \in prev THEN "1" ELSE "0", "")>>]
    ELSE LET r == getmntent_loop(table, 1, d, <<>>)
         IN [ret |-> opened /\ r.mounted,
             out |-> Append(r.out, Line(IF r.mounted THEN "1" ELSE "0", ""))]

\* faulty variant: a mount table that cannot be opened counts as "mounted"
is_drive_mounted_failopen(d, opened, table) ==
    IF ~opened
    THEN [ret |-> TRUE, out |-> <<Line("Error opening /etc/mtab", "")>>]
    ELSE LET r == getmntent_loop(table, 1, d, <<>>)
         IN [ret |-> r.mounted,
             out |-> Append(r.out, Line(IF r.mounted THEN "1" ELSE "0", ""))]

\* faulty variant: a trailing slash is dropped from both paths before they
\* are compared (paths given as sequences of their components and slashes)
Norm(path) == IF Len(path) > 1 /\ path[Len(path)] = "/"
              THEN SubSeq(path, 1, Len(path) - 1) ELSE path

is_drive_mounted_normalizing(d, opened, table) ==
    LET hit == \E k \in 1..Len(table) : Norm(table[k]) = Norm(d)
    IN [ret |-> opened /\ hit, out |-> <<Line(IF hit THEN "1" ELSE "0", "")>>]

\* faulty variant: once /etc/mtab could not be opened, the rest of the call
\* answers "not mounted" without looking
is_drive_mounted_sticky(d, opened, table) ==
    IF ~opened \/ mtab_failed
    THEN [ret |-> FALSE, out |-> <<Line("Error opening /etc/mtab", "")>>]
    ELSE LET r == getmntent_loop(table, 1, d, <<>>)
         IN [ret |-> r.mounted,
             out |-> Append(r.out, Line(IF r.mounted THEN "1" ELSE "0", ""))]

is_drive_mounted(d, opened, table) ==
    IF ~opened
    THEN [ret |-> FALSE, out |-> <<Line("Error opening /etc/mtab", "")>>]
    ELSE LET r == getmntent_loop(table, 1, d, <<>>)
         IN [ret |-> r.mounted,
             out |-> Append(r.out, Line(IF r.mounted THEN "1" ELSE "0", ""))]

(***************************************************************************)
(* sync_directory: the line printed for system()'s result                  *)
(***************************************************************************)
\* faulty variant: the test of system()'s result is inverted
sync_directory_inverted(result, dest) ==
    IF result = 0 THEN Line("Error syncing", dest)
    ELSE Line("Successfully synced", dest)

sync_directory(result, dest) ==
    IF result # 0 THEN Line("Error syncing", dest)
    ELSE Line("Successfully synced", dest)

(***************************************************************************)
(* The scan of one batch                                                   *)
(***************************************************************************)
RECURSIVE Bytes(_)
Bytes(b) == IF b = <<>> THEN 0 ELSE EVENT_SIZE + Head(b).len + Bytes(Tail(b))

\* the event that starts at byte offset off (the cast of &buffer[off])
RECURSIVE EventAt(_, _)
EventAt(b, off) == IF off = 0 THEN Head(b)
                   ELSE EventAt(Tail(b), off - (EVENT_SIZE + Head(b).len))

\* faulty variant: the name length is not looked at
Qualifies_anyName(event) == event.mask \cap IN_ALL # {}

Qualifies(event) == event.len # 0 /\ event.mask \cap IN_ALL # {}

(***************************************************************************)
(* Initial state: the process has been started with some argument vector   *)
(***************************************************************************)
NoQuery == [live |-> FALSE, opened |-> TRUE, out |-> <<>>]

StartWith(argvs) ==
    /\ argv \in argvs
    /\ pc = "main"
    /\ src_dir = ""
    /\ dest_drives = <<>>
    /\ mtab \in MountTables
    /\ mtab_ok \in BOOLEAN
    /\ drive = 1
    /\ caller = "none"
    /\ buffer = <<>>
    /\ length = 0
    /\ i = 0
    /\ fd = -1
    /\ wd = -1
    /\ exit_status = -1
    /\ active = 0
    /\ att = <<>>
    /\ cur = NoQuery
    /\ prev = {}
    /\ mtab_failed = FALSE
    /\ has_read = FALSE
    /\ cycle_syncs = 0
    /\ error = "none"
    /\ initial_done = FALSE

Init == StartWith(ArgVectors)

Exit(status, why) ==
    /\ pc' = "exit"
    /\ exit_status' = status
    /\ error' = why

(***************************************************************************)
(* main, lines 56-62: argument check, src_dir and dest_drives              *)
(***************************************************************************)
RECURSIVE Dedup(_)
Dedup(s) ==
    IF s = <<>> THEN <<>>
    ELSE LET r == Dedup(SubSeq(s, 1, Len(s) - 1))
         IN IF s[Len(s)] \in Range(r) THEN r ELSE Append(r, s[Len(s)])

\* faulty variant: a destination given twice is kept once
DestDrives_unique(a) == Dedup(SubSeq(a, 3, Len(a)))

\* line 62: std::vector<std::string> dest_drives(argv + 2, argv + argc)
DestDrives(a) == SubSeq(a, 3, Len(a))

\* faulty variant: a source without any destination is accepted
BadArgs_offByOne == Len(argv) < 2

BadArgs == Len(argv) < 3

CheckArgs ==
    /\ pc = "main"
    /\ IF BadArgs
       THEN /\ Exit(1, "usage")
            /\ UNCHANGED <<src_dir, dest_drives>>
       ELSE /\ src_dir' = argv[2]
            /\ dest_drives' = DestDrives(argv)
            /\ pc' = "inotify_init"
            /\ UNCHANGED <<exit_status, error>>
    /\ UNCHANGED <<drive, caller, buffer, length, i, fd, wd, att, cur, prev,
                   has_read, cycle_syncs, initial_done>>
    /\ UNCHANGED <<active, mtab_failed>>
    /\ UNCHANGED env

(***************************************************************************)
(* main, lines 64-68: inotify_init                                         *)
(***************************************************************************)
InotifyInit ==
    /\ pc = "inotify_init"
    /\ \E r \in {-1, 3} :
          /\ fd' = r
          /\ IF r < 0 THEN Exit(1, "inotify_init")
             ELSE pc' = "add_watch" /\ UNCHANGED <<exit_status, error>>
    /\ UNCHANGED <<src_dir, dest_drives, drive, caller, buffer, length, i, wd,
                   att, cur, prev, has_read, cycle_syncs, initial_done>>
    /\ UNCHANGED <<active, mtab_failed>>
    /\ UNCHANGED env

(***************************************************************************)
(* main, lines 70-77: inotify_add_watch                                    *)
(***************************************************************************)
\* faulty variant: the initial sync is left out
AfterWatch_noInitial == "read"

\* where main goes once the watch is established
AfterWatch == "initial_sync"

\* faulty variant: the result of inotify_add_watch is not tested
AddWatch_unchecked ==
    /\ pc = "add_watch"
    /\ \E r \in {-1, 1} : wd' = r
    /\ pc' = AfterWatch
    /\ UNCHANGED <<src_dir, dest_drives, drive, caller, buffer, length, i, fd,
                   exit_status, error, att, cur, prev, has_read, cycle_syncs,
                   initial_done>>
    /\ UNCHANGED <<active, mtab_failed>>
    /\ UNCHANGED env

AddWatch ==
    /\ pc = "add_watch"
    /\ \E r \in {-1, 1} :
          /\ wd' = r
          /\ IF r < 0
             THEN Exit(1, "add_watch") /\ fd' = -1
             ELSE pc' = AfterWatch /\ UNCHANGED <<fd, exit_status, error>>
    /\ UNCHANGED <<src_dir, dest_drives, drive, caller, buffer, length, i,
                   att, cur, prev, has_read, cycle_syncs, initial_done>>
    /\ UNCHANGED <<active, mtab_failed>>
    /\ UNCHANGED env

(***************************************************************************)
(* sync_to_all_drives                                                      *)
(***************************************************************************)
\* entering the function: the range-for starts at the first drive
EnterSync(from) ==
    /\ pc' = "for_drive"
    /\ caller' = from
    /\ drive' = 1
    /\ att' = <<>>
    /\ cur' = NoQuery
    /\ mtab_failed' = FALSE

\* line 80: the initial sync
InitialSync ==
    /\ pc = "initial_sync"
    /\ EnterSync("initial")
    /\ UNCHANGED <<src_dir, dest_drives, buffer, length, i, fd, wd, exit_status,
                   prev, has_read, cycle_syncs, error, initial_done>>
    /\ UNCHANGED active
    /\ UNCHANGED env

\* faulty variant: the answer of is_drive_mounted is not looked at
CallsSync_always(mounted) == TRUE

\* line 49: whether sync_directory is called, given is_drive_mounted's answer
CallsSync(mounted) == mounted

\* line 49: if (is_drive_mounted(drive))
QueryMount ==
    /\ pc = "for_drive"
    /\ drive <= Len(dest_drives)
    /\ LET q == is_drive_mounted(dest_drives[drive], mtab_ok, mtab)
       IN /\ att' = Append(att, [dest |-> dest_drives[drive], mounted |-> q.ret,
                                 calls |-> 0, result |-> -1])
          /\ mtab_failed' = (mtab_failed \/ ~mtab_ok)
          /\ cur' = [live   |-> dest_drives[drive] \in Range(mtab),
                     opened |-> mtab_ok,
                     out    |-> q.out]
          /\ IF CallsSync(q.ret)
             THEN pc' = "sync_directory" /\ drive' = drive
             ELSE pc' = "for_drive" /\ drive' = drive + 1
    /\ UNCHANGED <<src_dir, dest_drives, caller, buffer, length, i, fd, wd,
                   exit_status, prev, has_read, cycle_syncs, error, initial_done>>
    /\ UNCHANGED active
    /\ UNCHANGED env

\* faulty variant: rsync is started in the background and not waited for
MirrorStart_background ==
    /\ pc = "sync_directory"
    /\ att' = [att EXCEPT ![drive].calls = @ + 1, ![drive].result = 0]
    /\ active' = active + 1
    /\ pc' = "for_drive"
    /\ drive' = drive + 1
    /\ UNCHANGED <<src_dir, dest_drives, caller, buffer, length, i, fd, wd,
                   exit_status, cur, prev, has_read, cycle_syncs, error,
                   initial_done>>
    /\ UNCHANGED mtab_failed
    /\ UNCHANGED env

\* lines 38-39: sync_directory starts rsync through system()
MirrorStart ==
    /\ pc = "sync_directory"
    /\ att' = [att EXCEPT ![drive].calls = @ + 1]
    /\ active' = active + 1
    /\ pc' = "system"
    /\ UNCHANGED <<src_dir, dest_drives, drive, caller, buffer, length, i, fd, wd,
                   exit_status, cur, prev, has_read, cycle_syncs, error,
                   initial_done>>
    /\ UNCHANGED mtab_failed
    /\ UNCHANGED env

\* faulty variant: a failed rsync ends the range-for
AfterMirror_abort(result, d) == IF result # 0 THEN Len(dest_drives) + 1 ELSE d + 1

\* the drive the range-for turns to once sync_directory has returned
AfterMirror(result, d) == d + 1

\* lines 39-45: system() returns, the outcome is printed, next drive
MirrorFinish ==
    /\ pc = "system"
    /\ \E result \in {0, 256} :
          /\ att' = [att EXCEPT ![drive].result = result]
          /\ cur' = [cur EXCEPT !.out = Append(@, sync_directory(result, dest_drives[drive]))]
          /\ drive' = AfterMirror(result, drive)
    /\ active' = active - 1
    /\ pc' = "for_drive"
    /\ UNCHANGED <<src_dir, dest_drives, caller, buffer, length, i, fd, wd,
                   exit_status, prev, has_read, cycle_syncs, error, initial_done>>
    /\ UNCHANGED mtab_failed
    /\ UNCHANGED env

\* faulty variant: no break, the scan goes on with the next event
AfterChangeSync_continue(off, event, len) == off + EVENT_SIZE + event.len

\* the offset the scan of the batch resumes at after a change-triggered sync;
\* line 97 breaks out of the scan, which is the scan at its end
AfterChangeSync(off, event, len) == len

\* line 53: the range-for is over, sync_to_all_drives returns to its caller
ReturnFromSync ==
    /\ pc = "for_drive"
    /\ drive > Len(dest_drives)
    /\ IF caller = "initial"
       THEN /\ pc' = "read"
            /\ initial_done' = TRUE
            /\ UNCHANGED i
       ELSE /\ i' = AfterChangeSync(i, EventAt(buffer, i), length)
            /\ pc' = IF i' < length THEN "scan" ELSE "read"
            /\ UNCHANGED initial_done
    /\ caller' = "none"
    /\ prev' = {dest_drives[k] : k \in {n \in 1..Len(att) : att[n].mounted}}
    /\ att' = <<>>
    /\ cur' = NoQuery
    /\ mtab_failed' = FALSE
    /\ UNCHANGED <<src_dir, dest_drives, drive, buffer, length, fd, wd,
                   exit_status, has_read, cycle_syncs, error>>
    /\ UNCHANGED active
    /\ UNCHANGED env

(***************************************************************************)
(* The watch loop                                                          *)
(***************************************************************************)
\* what main returns once the loop has been left (lines 104-106)
ReturnAfterLoop == 0

\* faulty variant: a failed read is retried (continue instead of break)
ReadFails_retry ==
    /\ pc = "read"
    /\ has_read' = TRUE
    /\ length' = -1
    /\ UNCHANGED <<pc, src_dir, dest_drives, drive, caller, buffer, i, fd, wd,
                   exit_status, att, cur, prev, cycle_syncs, error, initial_done>>
    /\ UNCHANGED <<active, mtab_failed>>
    /\ UNCHANGED env

\* lines 84-88 and 104-106: read fails, the loop is left and main returns
ReadFails ==
    /\ pc = "read"
    /\ has_read' = TRUE
    /\ length' = -1
    /\ Exit(ReturnAfterLoop, "read")
    /\ fd' = -1
    /\ wd' = -1
    /\ UNCHANGED <<src_dir, dest_drives, drive, caller, buffer, i, att, cur,
                   prev, cycle_syncs, initial_done>>
    /\ UNCHANGED <<active, mtab_failed>>
    /\ UNCHANGED env

\* faulty variant: a read that delivers nothing ends the loop (length <= 0)
ReadFrom_breakOnEmpty(batches) ==
    /\ pc = "read"
    /\ has_read' = TRUE
    /\ \E b \in batches :
          /\ buffer' = b
          /\ length' = Bytes(b)
          /\ IF 0 < Bytes(b)
             THEN pc' = "scan" /\ UNCHANGED <<exit_status, error>>
             ELSE Exit(ReturnAfterLoop, "read")
    /\ i' = 0
    /\ cycle_syncs' = 0
    /\ UNCHANGED <<src_dir, dest_drives, drive, caller, fd, wd, att, cur, prev,
                   initial_done>>
    /\ UNCHANGED <<active, mtab_failed>>
    /\ UNCHANGED env

\* lines 84-90: read delivers a batch of events, one of batches
ReadFrom(batches) ==
    /\ pc = "read"
    /\ has_read' = TRUE
    /\ \E b \in batches :
          /\ buffer' = b
          /\ length' = Bytes(b)
          /\ pc' = IF 0 < Bytes(b) THEN "scan" ELSE "read"
    /\ i' = 0
    /\ cycle_syncs' = 0
    /\ UNCHANGED <<src_dir, dest_drives, drive, caller, fd, wd, exit_status,
                   att, cur, prev, error, initial_done>>
    /\ UNCHANGED <<active, mtab_failed>>
    /\ UNCHANGED env

Read == ReadFrom(Batches)

\* lines 91-101: one turn of while (i < length)
Scan ==
    /\ pc = "scan"
    /\ LET event == EventAt(buffer, i)
       IN IF Qualifies(event)
          THEN /\ EnterSync("change")
               /\ cycle_syncs' = cycle_syncs + 1
               /\ UNCHANGED i
          ELSE /\ i' = i + EVENT_SIZE + event.len
               /\ pc' = IF i' < length THEN "scan" ELSE "read"
               /\ UNCHANGED <<drive, caller, att, cur, mtab_failed, cycle_syncs>>
    /\ UNCHANGED <<src_dir, dest_drives, buffer, length, fd, wd, exit_status,
                   prev, has_read, error, initial_done>>
    /\ UNCHANGED active
    /\ UNCHANGED env

(***************************************************************************)
(* The environment: drives are mounted and unmounted, /etc/mtab comes and  *)
(* goes, at any moment while the process runs                              *)
(***************************************************************************)
Remove(s, x) == SelectSeq(s, LAMBDA y : y # x)

Mount ==
    /\ pc # "exit"
    /\ \E d \in MountDirs \ Range(mtab) : mtab' = Append(mtab, d)
    /\ UNCHANGED <<argv, mtab_ok>>
    /\ UNCHANGED prog

Unmount ==
    /\ pc # "exit"
    /\ \E d \in Range(mtab) : mtab' = Remove(mtab, d)
    /\ UNCHANGED <<argv, mtab_ok>>
    /\ UNCHANGED prog

MtabChange ==
    /\ pc # "exit"
    /\ mtab_ok' = ~mtab_ok
    /\ UNCHANGED <<argv, mtab>>
    /\ UNCHANGED prog

Next ==
    \/ CheckArgs
    \/ InotifyInit
    \/ AddWatch
    \/ InitialSync
    \/ QueryMount
    \/ MirrorStart
    \/ MirrorFinish
    \/ ReturnFromSync
    \/ ReadFails
    \/ Read
    \/ Scan
    \/ Mount
    \/ Unmount
    \/ MtabChange

Spec == Init /\ [][Next]_vars

(***************************************************************************)
(* The watch loop when no read fails and every rsync ends: main is one     *)
(* thread that takes its next step whenever it is not blocked in read;     *)
(* read itself may block for ever                                          *)
(***************************************************************************)
MaxLiveDests == 1   \* destinations on the command line
MaxLiveBatch == 1   \* events delivered by one read

LiveArgVectors == {a \in ArgVectors : Len(a) <= MaxLiveDests + 2}
LiveBatches == SeqsUpTo(Events, MaxLiveBatch)

LiveInit == StartWith(LiveArgVectors)

LiveRead == ReadFrom(LiveBatches)

Steps ==
    \/ CheckArgs \/ InotifyInit \/ AddWatch \/ InitialSync \/ QueryMount
    \/ MirrorStart \/ MirrorFinish \/ ReturnFromSync \/ Scan

NextLive == Steps \/ LiveRead \/ Mount \/ Unmount \/ MtabChange

SpecLive == LiveInit /\ [][NextLive]_vars /\ WF_vars(Steps)

(***************************************************************************)
(* is_drive_mounted on its own: one call, for any path and any mount       *)
(* table.  Paths are sequences of components and slashes here, so that     *)
(* "/mnt/ssd1" and "/mnt/ssd1/" differ by one element and "/mnt" is a      *)
(* prefix of both.                                                         *)
(***************************************************************************)
MaxTable == 2       \* entries of the mount table

FnPaths == {<<"/", "mnt">>, <<"/", "mnt", "/", "ssd1">>,
            <<"/", "mnt", "/", "ssd1", "/">>, <<"/", "mnt", "/", "ssd2">>}

FnInit ==
    /\ \E path \in FnPaths :
          /\ argv = <<"sync_to_ssds", "/data", path>>
          /\ dest_drives = <<path>>
    /\ pc = "is_drive_mounted"
    /\ src_dir = "/data"
    /\ mtab \in SeqsUpTo(FnPaths, MaxTable)
    /\ mtab_ok \in BOOLEAN
    /\ drive = 1
    /\ caller = "none"
    /\ buffer = <<>>
    /\ length = 0
    /\ i = 0
    /\ fd = -1
    /\ wd = -1
    /\ exit_status = -1
    /\ active = 0
    /\ att = <<>>
    /\ cur = NoQuery
    /\ prev = {}
    /\ mtab_failed = FALSE
    /\ has_read = FALSE
    /\ cycle_syncs = 0
    /\ error = "none"
    /\ initial_done = FALSE

\* lines 15-35: the call and its return value
FnCall ==
    /\ pc = "is_drive_mounted"
    /\ LET q == is_drive_mounted(dest_drives[drive], mtab_ok, mtab)
       IN /\ att' = <<[dest |-> dest_drives[drive], mounted |-> q.ret,
                       calls |-> 0, result |-> -1]>>
          /\ cur' = [live   |-> dest_drives[drive] \in Range(mtab),
                     opened |-> mtab_ok,
                     out    |-> q.out]
    /\ pc' = "returned"
    /\ UNCHANGED <<src_dir, dest_drives, drive, caller, buffer, length, i, fd, wd,
                   exit_status, active, prev, mtab_failed, has_read,
                   cycle_syncs, error, initial_done>>
    /\ UNCHANGED env

SpecFn == FnInit /\ [][FnCall]_vars

TypeOK ==
    /\ pc \in {"main", "inotify_init", "add_watch", "initial_sync", "for_drive",
               "sync_directory", "system", "read", "scan", "exit"}
    /\ exit_status \in {-1, 0, 1}
    /\ drive \in 1..(Len(dest_drives) + 1)
    /\ Len(att) <= Len(dest_drives)
    /\ prev \subseteq MountDirs
    /\ active \in 0..1
(***************************************************************************)
(* Properties                                                              *)
(***************************************************************************)
\* the part of Next that is the program's own steps
ProgNext ==
    \/ CheckArgs \/ InotifyInit \/ AddWatch \/ InitialSync \/ QueryMount
    \/ MirrorStart \/ MirrorFinish \/ ReturnFromSync \/ ReadFails \/ Read \/ Scan

InSync == pc \in {"for_drive", "sync_directory", "system"}
\* the range-for of the call in progress is over, the call has not returned yet
SyncComplete == pc = "for_drive" /\ drive > Len(dest_drives)
\* the destinations of the call in progress that have been dealt with
Handled == {k \in 1..Len(att) : k < drive}
Failed(k) == att[k].result \notin {-1, 0}
Count(out, texts) == Cardinality({k \in 1..Len(out) : out[k].text \in texts})

\* C1: in every call of sync_to_all_drives, sync_directory is invoked exactly
\* once for each list entry is_drive_mounted answered true for and never for
\* an entry it answered false for, whatever rsync returned; every entry of
\* the list (duplicates included) is queried.
C1_MirrorOncePerMounted ==
    /\ \A k \in 1..Len(att) :
          /\ att[k].calls <= 1
          /\ ~att[k].mounted => att[k].calls = 0
    /\ \A k \in Handled : att[k].calls = IF att[k].mounted THEN 1 ELSE 0
    /\ SyncComplete => Len(att) = Len(dest_drives)

C1_Witness ==
    /\ SyncComplete
    /\ Len(dest_drives) = 2
    /\ dest_drives[1] = dest_drives[2]
    /\ att[1].mounted /\ att[1].calls = 1 /\ Failed(1)
    /\ ~att[2].mounted /\ att[2].calls = 0

\* C2: a batch of N >= 1 qualifying events delivered by one read gives
\* exactly one sync_to_all_drives call for that read, a batch without any
\* gives none; the count never depends on an earlier batch.
C2_OneSyncPerBatch ==
    /\ cycle_syncs <= 1
    /\ (pc = "read" /\ has_read) =>
          cycle_syncs = IF \E k \in 1..Len(buffer) : Qualifies(buffer[k]) THEN 1 ELSE 0

C2_Witness ==
    /\ pc = "read"
    /\ Len(buffer) = 2
    /\ buffer[1].mask = {"IN_CREATE"} /\ buffer[2].mask = {"IN_DELETE"}
    /\ cycle_syncs = 1

\* C3: the initial sync has returned before any read is made, whether or not
\* a notification ever arrives, and before any change-triggered sync starts.
C3_InitialSyncFirst ==
    /\ has_read => initial_done
    /\ pc \in {"read", "scan"} => initial_done
    /\ caller = "change" => initial_done

C3_Witness == pc = "read" /\ ~has_read /\ initial_done /\ wd >= 0

\* C4: a failed rsync for one destination neither ends the call nor the
\* process: every later destination is still queried and, if mounted, synced.
C4_FailureDoesNotAbort ==
    \A k \in 1..Len(att) : Failed(k) =>
        /\ InSync
        /\ pc = "for_drive" => Len(att) = drive - 1
        /\ SyncComplete => Len(att) = Len(dest_drives)
        /\ \A j \in Handled : j > k => att[j].calls = IF att[j].mounted THEN 1 ELSE 0

C4_Witness ==
    /\ SyncComplete
    /\ Len(att) = 2
    /\ Failed(1)
    /\ att[2].mounted /\ att[2].calls = 1

\* C5: started with no argument or with a source only, main returns 1 and
\* has neither opened inotify, nor added a watch, nor queried the mount
\* table, nor started rsync.
C5_BadArgsExit ==
    (Len(argv) < 3 /\ pc # "main") =>
        /\ pc = "exit" /\ exit_status = 1 /\ error = "usage"
        /\ fd = -1 /\ wd = -1
        /\ ~initial_done /\ caller = "none" /\ att = <<>> /\ cur = NoQuery
        /\ ~has_read

C5_Witness == pc = "exit" /\ Len(argv) = 2 /\ exit_status = 1

\* C6: every answer of is_drive_mounted is the state of the mount table at
\* the moment of the query, and the call acts on it: a path the previous
\* call found unmounted and that is mounted now is synced, and conversely.
C6_NoStaleMountState ==
    att # <<>> =>
        /\ att[Len(att)].mounted = (cur.opened /\ cur.live)
        /\ pc = "for_drive" =>
              att[Len(att)].calls = IF cur.opened /\ cur.live THEN 1 ELSE 0

C6_Witness ==
    /\ caller = "change"
    /\ pc = "for_drive"
    /\ Len(att) = 2
    /\ dest_drives[1] \in prev /\ ~att[1].mounted
    /\ dest_drives[2] \notin prev /\ att[2].mounted /\ att[2].calls = 1

\* C7: when /etc/mtab cannot be opened, is_drive_mounted answers false:
\* the destination is not synced, the range-for goes on with the next
\* destination and the process keeps running.
C7_MtabUnavailable ==
    (att # <<>> /\ ~cur.opened) =>
        /\ ~att[Len(att)].mounted
        /\ att[Len(att)].calls = 0
        /\ pc = "for_drive" /\ drive = Len(att) + 1
        /\ exit_status = -1
        /\ cur.out = <<Line("Error opening /etc/mtab", "")>>

C7_Witness ==
    /\ att # <<>> /\ ~cur.opened /\ cur.live
    /\ Len(att) < Len(dest_drives)
    /\ ENABLED QueryMount

\* C8 (as claimed): every fatal error ends the process with a non-zero exit
\* status, a failed read of the notification stream included.
C8_FatalErrorNonZero == (pc = "exit" /\ error # "none") => exit_status # 0

\* C9 (as claimed): every destination dealt with has exactly one outcome
\* line naming it: skipped when found not mounted, synced or failed otherwise.
OutcomeLines(out, dest) ==
    {k \in 1..Len(out) : out[k].arg = dest /\ out[k].text # "mnt_dir"}

C10_ReadFailureEndsLoop ==
    length < 0 =>
        /\ pc = "exit"
        /\ ~ENABLED ProgNext
        /\ ~InSync /\ caller = "none" /\ att = <<>>

C10_Witness == length < 0 /\ pc = "exit" /\ error = "read" /\ initial_done
\* C11: when inotify_init or inotify_add_watch fails, main returns 1 before
\* the initial sync: no mount query, no rsync and no read has happened; the
\* process syncs, reads or scans only while it holds a descriptor and a watch.
C11_WatchFailureExit ==
    /\ error \in {"inotify_init", "add_watch"} =>
          /\ pc = "exit" /\ exit_status = 1
          /\ ~initial_done /\ caller = "none" /\ att = <<>> /\ cur = NoQuery
          /\ prev = {} /\ active = 0 /\ ~has_read
    /\ (InSync \/ pc \in {"initial_sync", "read", "scan"}) => (fd >= 0 /\ wd >= 0)
    /\ (pc \notin {"main", "inotify_init", "add_watch"} /\ (fd < 0 \/ wd < 0)) => pc = "exit"

C11_Witness ==
    /\ pc = "exit" /\ error = "add_watch" /\ exit_status = 1
    /\ Len(dest_drives) >= 1 /\ dest_drives[1] \in Range(mtab) /\ mtab_ok

\* C12: syncs do not overlap and reads alternate with them: at most one
\* rsync is active, and only while main is blocked in system(); while a
\* sync is in progress main is neither reading nor scanning, and when it
\* reads or scans no sync is in progress and none is left unfinished.
C12_NoOverlap ==
    /\ active <= 1
    /\ (active = 1) <=> (pc = "system")
    /\ InSync <=> caller # "none"
    /\ pc \in {"read", "scan", "exit"} => (att = <<>> /\ active = 0)
    /\ SyncComplete =>
          /\ Len(att) = Len(dest_drives)
          /\ \A k \in 1..Len(att) : att[k].mounted => att[k].result # -1
    /\ ENABLED Read => ~InSync
    /\ InSync => ~ENABLED Read /\ ~ENABLED Scan

C12_Witness ==
    /\ pc = "system" /\ active = 1
    /\ caller = "change"
    /\ drive = 2 /\ att[1].calls = 1 /\ att[1].result # -1
    /\ dest_drives[1] = dest_drives[2]
    /\ Len(buffer) = 2 /\ i = 0

\* C13: within one call the destinations are dealt with one after the other
\* in the order of the command line: when the query for an entry is made,
\* every earlier entry has been queried and, if mounted, its rsync has
\* ended; an entry given k times is queried k times.
C13_ListOrder ==
    InSync =>
        /\ Len(att) = (IF pc = "for_drive" THEN drive - 1 ELSE drive)
        /\ \A k \in 1..Len(att) : att[k].dest = argv[k + 2]
        /\ \A k \in 1..Len(att) : k < Len(att) =>
              /\ att[k].calls = (IF att[k].mounted THEN 1 ELSE 0)
              /\ att[k].mounted => att[k].result # -1
        /\ SyncComplete => Len(att) = Len(argv) - 2

C13_Witness ==
    /\ SyncComplete
    /\ Len(argv) = 4 /\ argv[3] = argv[4]
    /\ att[1].mounted /\ att[1].calls = 1
    /\ att[2].mounted /\ att[2].calls = 1

\* C14: an event without a name never starts a sync, the scan goes on with
\* the next event: the event a change-triggered sync was started for has a
\* name, a batch of nameless events (or an empty one) gives no sync, and a
\* named event after nameless ones still gives one.
C14_NamelessIgnored ==
    /\ caller = "change" => EventAt(buffer, i).len # 0
    /\ (pc = "read" /\ has_read /\ \A k \in 1..Len(buffer) : buffer[k].len = 0) =>
          cycle_syncs = 0
    /\ (pc = "read" /\ has_read /\ \E k \in 1..Len(buffer) : buffer[k].len # 0) =>
          cycle_syncs = 1

C14_Witness ==
    /\ pc = "read" /\ has_read
    /\ Len(buffer) = 2
    /\ buffer[1].len = 0 /\ buffer[2].len = 0
    /\ buffer[1].mask \cap IN_ALL # {}
    /\ cycle_syncs = 0

\* C16 (as claimed): once a query of a call could not open /etc/mtab, no
\* destination of that call is synced.
C16_FailureCoversCall ==
    mtab_failed => \A k \in 1..Len(att) : att[k].calls = 0

\* C16 (amended): a query that cannot open /etc/mtab makes the destination it
\* was made for count as not mounted, and only that one: every destination
\* of the call is decided by its own query, so one queried while the table
\* can be opened and lists it is synced even after an earlier failure.
C16_FailureCoversQuery ==
    /\ mtab_failed => att # <<>>
    /\ att # <<>> =>
          /\ ~cur.opened => (mtab_failed /\ ~att[Len(att)].mounted /\ att[Len(att)].calls = 0)
          /\ (cur.opened /\ cur.live) => att[Len(att)].mounted
          /\ (cur.opened /\ cur.live /\ pc = "for_drive") => att[Len(att)].calls = 1

C16_Witness ==
    /\ pc = "for_drive"
    /\ mtab_failed
    /\ Len(att) = 2
    /\ ~att[1].mounted
    /\ cur.opened /\ att[2].mounted /\ att[2].calls = 1

\* C18 (as claimed): whenever rsync is started for a destination, the
\* destination is in the mount table at that moment.
C18_MountedAtStart ==
    [][(pc = "sync_directory" /\ pc' = "system") =>
          (mtab_ok /\ dest_drives[drive] \in Range(mtab))]_vars

\* C18 (amended): rsync is started for a destination only after the query
\* made for it in the same turn of the loop found it in the mount table; the
\* table may change between that query and the start of rsync.
C18_MountedAtQuery ==
    /\ \A k \in 1..Len(att) : att[k].calls > 0 => att[k].mounted
    /\ pc \in {"sync_directory", "system"} =>
          /\ Len(att) = drive
          /\ att[drive].mounted
          /\ cur.opened /\ cur.live

C18_Witness ==
    /\ pc = "sync_directory"
    /\ ENABLED MirrorStart
    /\ cur.opened /\ cur.live
    /\ dest_drives[drive] \notin Range(mtab)
\* C15: is_drive_mounted(path) is true iff /etc/mtab could be opened and the
\* mount directory of some entry equals path element for element: a path
\* that differs from every entry by a trailing slash, or is a prefix of
\* one, is not mounted.
C15_ExactMatch ==
    pc = "returned" =>
        LET path == dest_drives[1]
            same(a, b) == Len(a) = Len(b) /\ \A n \in 1..Len(a) : a[n] = b[n]
        IN att[1].mounted = (mtab_ok /\ \E k \in 1..Len(mtab) : same(mtab[k], path))

C15_Witness ==
    /\ pc = "returned"
    /\ mtab_ok
    /\ dest_drives[1] = <<"/", "mnt", "/", "ssd1", "/">>
    /\ mtab = <<<<"/", "mnt", "/", "ssd2">>, <<"/", "mnt", "/", "ssd1">>>>
    /\ ~att[1].mounted

\* C17: when no read fails and every rsync ends, a batch with a qualifying
\* event leads to a completed change-triggered sync, a completed sync leads
\* back to read, and main never returns once the watch is established.
BatchQualifies == \E k \in 1..Len(buffer) : Qualifies(buffer[k])

C17_SyncThenRead ==
    /\ (pc = "scan" /\ BatchQualifies /\ cycle_syncs = 0) ~> (SyncComplete /\ caller = "change")
    /\ SyncComplete ~> (pc = "read" /\ caller = "none")
    /\ [](wd >= 0 => pc # "exit")

C17_Witness ==
    /\ pc = "read" /\ has_read
    /\ cycle_syncs = 1
    /\ BatchQualifies
    /\ prev # {}
====
